---- MODULE Spec2Model ----
(***************************************************************************)
(* The five HTTP handlers of the twitter-clone backend (src/unnamed/       *)
(* part_000) over its two MongoDB collections.  Every `await` of a handler *)
(* is a point where other requests run, so one action of the model is one  *)
(* store operation together with the handler code that follows it up to    *)
(* the next `await` (that code touches only the request's own locals and   *)
(* its response).  Every store operation may also throw.                   *)
(***************************************************************************)
EXTENDS Integers, Sequences, FiniteSets, TLC

\* ------------------------------------------------------------------ bounds
\* How many requests arrive in one behaviour.
MaxRequests == 4
\* How many documents the users collection may be driven to.
MaxUsers == 2
\* How many tweet identities the store hands out in one behaviour.
MaxIds == 2

\* The requests in flight together: two, which is what each check-then-write
\* window of a handler needs to be raced.
Reqs == {1, 2}

\* --------------------------------------------------------------- JSON values
JStr(s) == [t |-> "string", v |-> s]
JNum == [t |-> "number", v |-> "7"]
JUndef == [t |-> "undefined", v |-> ""]
JNull == [t |-> "null", v |-> ""]

\* The strings of the input domain that are well-formed URIs.
UriStrings == {"https://x/a.png", "https://x/b.png"}

UsernameInputs == {JStr("u1"), JStr("u2"), JUndef, JNum}
TweetInputs == {JStr("a"), JStr("b"), JUndef, JNum}
AvatarInputs == {JStr("https://x/a.png"), JStr("https://x/b.png"), JStr("pic"), JUndef}

NoBody == [username |-> JUndef, avatar |-> JUndef, tweet |-> JUndef]

\* Request bodies: every body that passes its schema, and the bodies with one
\* field wrong (beside a fixed good one) or both missing.
UserBodies ==
  {b \in [username : UsernameInputs, avatar : AvatarInputs, tweet : {JUndef}] :
     \/ b \in {[username |-> JStr("u1"), avatar |-> JStr("https://x/a.png"), tweet |-> JUndef],
                [username |-> JStr("u2"), avatar |-> JStr("https://x/b.png"), tweet |-> JUndef]}
     \/ /\ b.username \in {JStr("u1"), JUndef, JNum}
        /\ b.avatar \in {JStr("https://x/a.png"), JStr("pic"), JUndef}
        /\ (b.username = JStr("u1") \/ b.avatar = JStr("https://x/a.png")
              \/ (b.username = JUndef /\ b.avatar = JUndef))}
TweetBodies ==
  {b \in [username : UsernameInputs, avatar : {JUndef}, tweet : TweetInputs] :
     \/ b.username.t = "string" /\ b.tweet.t = "string"
     \/ /\ b.username \in {JStr("u1"), JUndef, JNum}
        /\ b.tweet \in {JStr("a"), JUndef, JNum}
        /\ (b.username = JStr("u1") \/ b.tweet = JStr("a")
              \/ (b.username = JUndef /\ b.tweet = JUndef))}

\* The :id path parameter: a 24-digit hex string naming an ObjectId, or any
\* other string.
NoId == [hex |-> FALSE, oid |-> 0]
PathIds == {[hex |-> TRUE, oid |-> n] : n \in 1..MaxIds} \cup {NoId}

\* ------------------------------------------------------------------- state
VARIABLES
  usersCollection,   \* sequence of user documents, in insertion order
  tweetsCollection,  \* sequence of tweet documents, in insertion order
  nextId,            \* the next _id the store assigns to a tweet
  kind,              \* per slot: the route of the request it holds
  pc,                \* per slot: the await the handler stands at
  id,                \* per slot: req.params.id
  body,              \* per slot: req.body
  sent,              \* per slot: the status codes sent on res, in order
  json,              \* per slot: the array GET /tweets sent
  tweetsLocal,       \* per slot: GET /tweets' local `tweets`
  tweetsWithAvatar,  \* per slot: GET /tweets' promises, one per tweet
  arrived            \* how many requests have arrived so far

vars == <<usersCollection, tweetsCollection, nextId, kind, pc, id, body, sent,
          json, tweetsLocal, tweetsWithAvatar, arrived>>
stores == <<usersCollection, tweetsCollection, nextId>>
getLocals == <<json, tweetsLocal, tweetsWithAvatar>>

Pending == [settled |-> FALSE, username |-> JUndef, tweet |-> JUndef,
            avatar |-> JUndef, oid |-> 0]

\* ------------------------------------------------------------- validation
JoiString(x) == x.t = "string" /\ x.v # ""
JoiUri(x) == JoiString(x) /\ x.v \in UriStrings

userSchema(b) ==
  /\ JoiString(b.username)
  /\ JoiUri(b.avatar)
  /\ b.tweet = JUndef

tweetSchema(b) ==
  /\ JoiString(b.username)
  /\ JoiString(b.tweet)
  /\ b.avatar = JUndef

\* ------------------------------------------------------- store operations
Min(S) == CHOOSE x \in S : \A y \in S : x <= y

\* findOne: the first matching document in natural order, as <<doc>>, or <<>>.
findOneUser(username) ==
  LET m == {i \in DOMAIN usersCollection : usersCollection[i].username = username}
  IN IF m = {} THEN <<>> ELSE <<usersCollection[Min(m)]>>

findOneTweet(oid) ==
  LET m == {i \in DOMAIN tweetsCollection : tweetsCollection[i].oid = oid}
  IN IF m = {} THEN <<>> ELSE <<tweetsCollection[Min(m)]>>

\* Faulty variant: the listing is sent in insertion order.
Reverse_Omitted(s) == s

Reverse(s) == [i \in 1..Len(s) |-> s[Len(s) + 1 - i]]

\* ------------------------------------------------------------------- init
Init ==
  /\ usersCollection = <<>>
  /\ tweetsCollection = <<>>
  /\ nextId = 1
  /\ kind = [r \in Reqs |-> "idle"]
  /\ pc = [r \in Reqs |-> "idle"]
  /\ id = [r \in Reqs |-> NoId]
  /\ body = [r \in Reqs |-> NoBody]
  /\ sent = [r \in Reqs |-> <<>>]
  /\ json = [r \in Reqs |-> <<>>]
  /\ tweetsLocal = [r \in Reqs |-> <<>>]
  /\ tweetsWithAvatar = [r \in Reqs |-> <<>>]
  /\ arrived = 0

\* ------------------------------------------------------- request plumbing
\* A new request takes the lowest free slot.
Free(r) == pc[r] = "idle" /\ \A q \in Reqs : q < r => pc[q] # "idle"

Arrive(r, k, i, b) ==
  /\ Free(r)
  /\ arrived < MaxRequests
  /\ arrived' = arrived + 1
  /\ kind' = [kind EXCEPT ![r] = k]
  /\ id' = [id EXCEPT ![r] = i]
  /\ body' = [body EXCEPT ![r] = b]

\* res.status(code).send(...) followed by the handler's return.
Return(r, code) ==
  /\ sent' = [sent EXCEPT ![r] = Append(@, code)]
  /\ pc' = [pc EXCEPT ![r] = "returned"]

\* The handler reaches its next await.
Await(r, op) ==
  /\ pc' = [pc EXCEPT ![r] = op]
  /\ UNCHANGED sent

InFlight(k) == {r \in Reqs : kind[r] = k /\ pc[r] \notin {"idle", "returned", "caught"}}

\* ------------------------------------------------------------ POST /sign-up
SignUpCatch(r) ==
  /\ sent' = [sent EXCEPT ![r] = Append(@, 500)]
  /\ pc' = [pc EXCEPT ![r] = "caught"]

\* A sign-up that may still insert arrives only while the collection has room.
SignUpStart(r, b) ==
  /\ \/ ~userSchema(b)
     \/ findOneUser(b.username) # <<>>
     \/ Len(usersCollection) + Cardinality(InFlight("sign-up")) < MaxUsers
  /\ Arrive(r, "sign-up", NoId, b)
  /\ IF ~userSchema(b) THEN Return(r, 422) ELSE Await(r, "findOne")
  /\ UNCHANGED <<stores, getLocals>>

SignUpFindOne(r) ==
  /\ kind[r] = "sign-up" /\ pc[r] = "findOne"
  /\ \/ SignUpCatch(r)
     \/ LET existingUser == findOneUser(body[r].username)
        IN IF existingUser # <<>> THEN Return(r, 409) ELSE Await(r, "insertOne")
  /\ UNCHANGED <<stores, kind, id, body, getLocals, arrived>>

SignUpInsertOne(r) ==
  /\ kind[r] = "sign-up" /\ pc[r] = "insertOne"
  /\ \/ SignUpCatch(r) /\ UNCHANGED usersCollection
     \/ /\ usersCollection' = Append(usersCollection,
               [username |-> body[r].username, avatar |-> body[r].avatar])
        /\ Return(r, 201)
  /\ UNCHANGED <<tweetsCollection, nextId, kind, id, body, getLocals, arrived>>

\* ------------------------------------------------------------- POST /tweets
PostTweetCatch(r) ==
  /\ sent' = [sent EXCEPT ![r] = Append(@, 500)]
  /\ pc' = [pc EXCEPT ![r] = "caught"]

\* A post that may still insert arrives only while identities are left.
PostTweetStart(r, b) ==
  /\ \/ ~tweetSchema(b)
     \/ (nextId - 1) + Cardinality(InFlight("post-tweet")) < MaxIds
  /\ Arrive(r, "post-tweet", NoId, b)
  /\ IF ~tweetSchema(b) THEN Return(r, 422) ELSE Await(r, "findOne")
  /\ UNCHANGED <<stores, getLocals>>

\* Faulty variant: the user lookup's result is not tested.
PostTweetFindOne_NoCheck(r) ==
  /\ kind[r] = "post-tweet" /\ pc[r] = "findOne"
  /\ \/ PostTweetCatch(r)
     \/ Await(r, "insertOne")
  /\ UNCHANGED <<stores, kind, id, body, getLocals, arrived>>

\* Faulty variant: the user test is inverted.
PostTweetFindOne_Inverted(r) ==
  /\ kind[r] = "post-tweet" /\ pc[r] = "findOne"
  /\ \/ PostTweetCatch(r)
     \/ LET existingUser == findOneUser(body[r].username)
        IN IF existingUser # <<>> THEN Return(r, 401) ELSE Await(r, "insertOne")
  /\ UNCHANGED <<stores, kind, id, body, getLocals, arrived>>

PostTweetFindOne(r) ==
  /\ kind[r] = "post-tweet" /\ pc[r] = "findOne"
  /\ \/ PostTweetCatch(r)
     \/ LET existingUser == findOneUser(body[r].username)
        IN IF existingUser = <<>> THEN Return(r, 401) ELSE Await(r, "insertOne")
  /\ UNCHANGED <<stores, kind, id, body, getLocals, arrived>>

PostTweetInsertOne(r) ==
  /\ kind[r] = "post-tweet" /\ pc[r] = "insertOne"
  /\ \/ PostTweetCatch(r) /\ UNCHANGED <<tweetsCollection, nextId>>
     \/ /\ tweetsCollection' = Append(tweetsCollection,
               [oid |-> nextId, username |-> body[r].username, tweet |-> body[r].tweet])
        /\ nextId' = nextId + 1
        /\ Return(r, 201)
  /\ UNCHANGED <<usersCollection, kind, id, body, getLocals, arrived>>

\* -------------------------------------------------------------- GET /tweets
GetTweetsCatch(r) ==
  /\ sent' = [sent EXCEPT ![r] = Append(@, 500)]
  /\ pc' = [pc EXCEPT ![r] = "caught"]

\* user?.avatar || null
AvatarOrNull(user) ==
  IF user = <<>> THEN JNull
  ELSE IF user[1].avatar.v = "" THEN JNull ELSE user[1].avatar

\* The object one map callback resolves to.
WithAvatar(tweet, user) ==
  [settled |-> TRUE, oid |-> tweet.oid, username |-> tweet.username,
   tweet |-> tweet.tweet, avatar |-> AvatarOrNull(user)]

\* res.status(200).json(resolvedTweets.reverse())
GetTweetsSend(r, resolvedTweets) ==
  /\ json' = [json EXCEPT ![r] = Reverse(resolvedTweets)]
  /\ Return(r, 200)

GetTweetsStart(r) ==
  /\ InFlight("get-tweets") = {}
  /\ Arrive(r, "get-tweets", NoId, NoBody)
  /\ Await(r, "find")
  /\ UNCHANGED <<stores, getLocals>>

\* find().toArray(), then map starts one user lookup per tweet and the handler
\* awaits Promise.all of them (which resolves at once for an empty array).
GetTweetsFind(r) ==
  /\ kind[r] = "get-tweets" /\ pc[r] = "find"
  /\ \/ GetTweetsCatch(r) /\ UNCHANGED getLocals
     \/ /\ tweetsLocal' = [tweetsLocal EXCEPT ![r] = tweetsCollection]
        /\ tweetsWithAvatar' = [tweetsWithAvatar EXCEPT ![r] =
               [i \in 1..Len(tweetsCollection) |-> Pending]]
        /\ IF tweetsCollection = <<>>
           THEN GetTweetsSend(r, <<>>)
           ELSE Await(r, "Promise.all") /\ UNCHANGED json
  /\ UNCHANGED <<stores, kind, id, body, arrived>>

\* One of the pending user lookups completes, in any order.  A rejected lookup
\* rejects Promise.all; the last one to resolve resolves it.
GetTweetsFindOne(r, i) ==
  /\ kind[r] = "get-tweets" /\ pc[r] = "Promise.all"
  /\ i \in DOMAIN tweetsWithAvatar[r] /\ ~tweetsWithAvatar[r][i].settled
  /\ \/ GetTweetsCatch(r) /\ UNCHANGED getLocals
     \/ LET user == findOneUser(tweetsLocal[r][i].username)
            promises == [tweetsWithAvatar[r] EXCEPT
                           ![i] = WithAvatar(tweetsLocal[r][i], user)]
        IN /\ tweetsWithAvatar' = [tweetsWithAvatar EXCEPT ![r] = promises]
           /\ UNCHANGED tweetsLocal
           /\ IF \A j \in DOMAIN promises : promises[j].settled
              THEN GetTweetsSend(r, promises)
              ELSE Await(r, "Promise.all") /\ UNCHANGED json
  /\ UNCHANGED <<stores, kind, id, body, arrived>>

\* ---------------------------------------------------------- PUT /tweets/:id
\* Faulty variant: the catch block answers 500 as the other handlers' do.
PutTweetCatch_500(r) ==
  /\ sent' = [sent EXCEPT ![r] = Append(@, 500)]
  /\ pc' = [pc EXCEPT ![r] = "caught"]

PutTweetCatch(r) ==
  /\ sent' = [sent EXCEPT ![r] = Append(@, 404)]
  /\ pc' = [pc EXCEPT ![r] = "caught"]

\* new ObjectId(id) throws unless id is a well-formed hex string.
ObjectIdThrows(i) == ~i.hex

\* updateOne({_id}, {$set: {tweet}}): the collection afterwards.
updateOneTweet(oid, tweet) ==
  [i \in DOMAIN tweetsCollection |->
     IF tweetsCollection[i].oid = oid
     THEN [tweetsCollection[i] EXCEPT !.tweet = tweet]
     ELSE tweetsCollection[i]]

\* Faulty variant: result.matchedCount is read instead.
modifiedCount_Matched(oid, tweet) ==
  Cardinality({i \in DOMAIN tweetsCollection : tweetsCollection[i].oid = oid})

\* result.modifiedCount: documents matched and actually changed.
modifiedCount(oid, tweet) ==
  Cardinality({i \in DOMAIN tweetsCollection :
                 tweetsCollection[i].oid = oid /\ tweetsCollection[i].tweet # tweet})

\* Faulty variant: the id is converted before the body is validated.
PutTweetStart_IdFirst(r, i, b) ==
  /\ Arrive(r, "put-tweet", i, b)
  /\ IF ObjectIdThrows(i) THEN PutTweetCatch(r)
     ELSE IF ~tweetSchema(b) THEN Return(r, 422)
     ELSE Await(r, "findOne")
  /\ UNCHANGED <<stores, getLocals>>

PutTweetStart(r, i, b) ==
  /\ Arrive(r, "put-tweet", i, b)
  /\ IF ~tweetSchema(b) THEN Return(r, 422)
     ELSE IF ObjectIdThrows(i) THEN PutTweetCatch(r)
     ELSE Await(r, "findOne")
  /\ UNCHANGED <<stores, getLocals>>

\* Faulty variant: the ownership test is missing.
PutTweetFindOne_NoOwner(r) ==
  /\ kind[r] = "put-tweet" /\ pc[r] = "findOne"
  /\ \/ PutTweetCatch(r)
     \/ LET existingTweet == findOneTweet(id[r].oid)
        IN IF existingTweet = <<>> THEN Return(r, 404)
           ELSE Await(r, "updateOne")
  /\ UNCHANGED <<stores, kind, id, body, getLocals, arrived>>

PutTweetFindOne(r) ==
  /\ kind[r] = "put-tweet" /\ pc[r] = "findOne"
  /\ \/ PutTweetCatch(r)
     \/ LET existingTweet == findOneTweet(id[r].oid)
        IN IF existingTweet = <<>> THEN Return(r, 404)
           ELSE IF existingTweet[1].username # body[r].username THEN Return(r, 403)
           ELSE Await(r, "updateOne")
  /\ UNCHANGED <<stores, kind, id, body, getLocals, arrived>>

PutTweetUpdateOne(r) ==
  /\ kind[r] = "put-tweet" /\ pc[r] = "updateOne"
  /\ \/ PutTweetCatch(r) /\ UNCHANGED tweetsCollection
     \/ /\ tweetsCollection' = updateOneTweet(id[r].oid, body[r].tweet)
        /\ IF modifiedCount(id[r].oid, body[r].tweet) = 0
           THEN Return(r, 304)
           ELSE Return(r, 204)
  /\ UNCHANGED <<usersCollection, nextId, kind, id, body, getLocals, arrived>>

\* ------------------------------------------------------- DELETE /tweets/:id
DeleteTweetCatch(r) ==
  /\ sent' = [sent EXCEPT ![r] = Append(@, 404)]
  /\ pc' = [pc EXCEPT ![r] = "caught"]

\* Faulty variant: deleteOne is called with an empty filter.
deleteOneTweet_NoFilter(oid) ==
  IF tweetsCollection = <<>> THEN tweetsCollection ELSE Tail(tweetsCollection)

\* deleteOne({_id}): the collection afterwards.
deleteOneTweet(oid) ==
  LET m == {i \in DOMAIN tweetsCollection : tweetsCollection[i].oid = oid}
  IN IF m = {} THEN tweetsCollection
     ELSE LET k == Min(m)
          IN [i \in 1..(Len(tweetsCollection) - 1) |->
                IF i < k THEN tweetsCollection[i] ELSE tweetsCollection[i + 1]]

DeleteTweetStart(r, i) ==
  /\ Arrive(r, "delete-tweet", i, NoBody)
  /\ IF ObjectIdThrows(i) THEN DeleteTweetCatch(r) ELSE Await(r, "findOne")
  /\ UNCHANGED <<stores, getLocals>>

DeleteTweetFindOne(r) ==
  /\ kind[r] = "delete-tweet" /\ pc[r] = "findOne"
  /\ \/ DeleteTweetCatch(r)
     \/ LET existingTweet == findOneTweet(id[r].oid)
        IN IF existingTweet = <<>> THEN Return(r, 404) ELSE Await(r, "deleteOne")
  /\ UNCHANGED <<stores, kind, id, body, getLocals, arrived>>

DeleteTweetDeleteOne(r) ==
  /\ kind[r] = "delete-tweet" /\ pc[r] = "deleteOne"
  /\ \/ DeleteTweetCatch(r) /\ UNCHANGED tweetsCollection
     \/ /\ tweetsCollection' = deleteOneTweet(id[r].oid)
        /\ Return(r, 204)
  /\ UNCHANGED <<usersCollection, nextId, kind, id, body, getLocals, arrived>>

\* ------------------------------------------------------------------- next
\* The response has gone out and the slot is free again.
Close(r) ==
  /\ pc[r] \in {"returned", "caught"}
  /\ kind' = [kind EXCEPT ![r] = "idle"]
  /\ pc' = [pc EXCEPT ![r] = "idle"]
  /\ id' = [id EXCEPT ![r] = NoId]
  /\ body' = [body EXCEPT ![r] = NoBody]
  /\ sent' = [sent EXCEPT ![r] = <<>>]
  /\ json' = [json EXCEPT ![r] = <<>>]
  /\ tweetsLocal' = [tweetsLocal EXCEPT ![r] = <<>>]
  /\ tweetsWithAvatar' = [tweetsWithAvatar EXCEPT ![r] = <<>>]
  /\ UNCHANGED <<stores, arrived>>

Next ==
  \E r \in Reqs :
    \/ \E b \in UserBodies : SignUpStart(r, b)
    \/ SignUpFindOne(r)
    \/ SignUpInsertOne(r)
    \/ \E b \in TweetBodies : PostTweetStart(r, b)
    \/ PostTweetFindOne(r)
    \/ PostTweetInsertOne(r)
    \/ GetTweetsStart(r)
    \/ GetTweetsFind(r)
    \/ \E i \in 1..MaxIds : GetTweetsFindOne(r, i)
    \/ \E i \in PathIds, b \in TweetBodies : PutTweetStart(r, i, b)
    \/ PutTweetFindOne(r)
    \/ PutTweetUpdateOne(r)
    \/ \E i \in PathIds : DeleteTweetStart(r, i)
    \/ DeleteTweetFindOne(r)
    \/ DeleteTweetDeleteOne(r)
    \/ Close(r)

Spec == Init /\ [][Next]_vars

\* ================================================================== claims
Registered(username) ==
  \E j \in DOMAIN usersCollection : usersCollection[j].username = username

Stored(oid) == \E i \in DOMAIN tweetsCollection : tweetsCollection[i].oid = oid

IndexOf(oid) == CHOOSE i \in DOMAIN tweetsCollection : tweetsCollection[i].oid = oid

\* Slot r completes the store operation `op` of route k without it throwing.
Completes(r, k, op) ==
  /\ kind[r] = k /\ pc[r] = op
  /\ pc'[r] # "caught"
  /\ <<pc[r], sent[r], tweetsWithAvatar[r]>> # <<pc'[r], sent'[r], tweetsWithAvatar'[r]>>

\* Slot r's store operation `op` throws.
Throws(r, op) == pc[r] = op /\ pc'[r] = "caught"

\* A body its schema rejects, for route k.
C9_BadString(x) == x.t # "string" \/ x.v = ""
C9_BadBody(k, b) ==
  IF k = "sign-up"
  THEN C9_BadString(b.username) \/ C9_BadString(b.avatar) \/ b.avatar.v \notin UriStrings
  ELSE C9_BadString(b.username) \/ C9_BadString(b.tweet)

\* C1: under every interleaving of sign-ups the users collection holds at most
\* one document per username.
C1_UniqueUsernames ==
  \A i, j \in DOMAIN usersCollection :
    usersCollection[i].username = usersCollection[j].username => i = j

\* C2: a POST /tweets whose lookup completes while its username has no user
\* document answers 401 and changes neither collection; a tweet document is
\* added only by a POST /tweets whose username is registered, which answers 201.
C2_PostTweetUnregistered ==
  [][
      /\ \A r \in Reqs :
          Completes(r, "post-tweet", "findOne") =>
            IF Registered(body[r].username)
            THEN pc'[r] = "insertOne" /\ sent'[r] = <<>>
            ELSE /\ sent'[r] = <<401>> /\ pc'[r] = "returned"
                 /\ UNCHANGED <<usersCollection, tweetsCollection>>
      /\ (\E i \in DOMAIN tweetsCollection' :
             \A j \in DOMAIN tweetsCollection : tweetsCollection[j].oid # tweetsCollection'[i].oid)
           => \E r \in Reqs :
                /\ kind[r] = "post-tweet" /\ pc[r] = "insertOne"
                /\ Registered(body[r].username)
                /\ tweetsCollection' = Append(tweetsCollection, tweetsCollection'[Len(tweetsCollection')])
                /\ tweetsCollection'[Len(tweetsCollection')].username = body[r].username
                /\ tweetsCollection'[Len(tweetsCollection')].tweet = body[r].tweet
                /\ sent'[r] = <<201>>
    ]_vars

C2_Witness ==
  \E r \in Reqs :
    /\ kind[r] = "post-tweet" /\ sent[r] = <<401>>
    /\ ~Registered(body[r].username)
    /\ Len(tweetsCollection) = 1

\* C3: a PUT /tweets/:id whose lookup finds a tweet stored under another
\* username answers 403 and changes no stored document.
C3_PutForbidden ==
  [][\A r \in Reqs :
       ( /\ Completes(r, "put-tweet", "findOne")
         /\ \E i \in DOMAIN tweetsCollection :
              /\ tweetsCollection[i].oid = id[r].oid
              /\ tweetsCollection[i].username # body[r].username )
       => /\ sent'[r] = <<403>> /\ pc'[r] = "returned"
          /\ UNCHANGED <<usersCollection, tweetsCollection>>
    ]_vars

C3_Witness ==
  \E r \in Reqs :
    /\ kind[r] = "put-tweet" /\ sent[r] = <<403>>
    /\ \E i \in DOMAIN tweetsCollection :
         /\ tweetsCollection[i].oid = id[r].oid
         /\ tweetsCollection[i].username # body[r].username
         /\ tweetsCollection[i].tweet # body[r].tweet

\* C4: a PUT (with a valid body) or DELETE whose id is malformed or names no
\* stored tweet answers 404 and changes neither collection; under every
\* interleaving a PUT never answers 204 or 304, and a DELETE never answers 204,
\* when the tweet named by the id is absent from the store as the handler
\* writes.
C4_AbsentIs404 ==
  [][\A r \in Reqs :
       /\ ( /\ pc[r] = "idle" /\ kind'[r] \in {"put-tweet", "delete-tweet"}
            /\ ~id'[r].hex
            /\ kind'[r] = "put-tweet" => ~C9_BadBody("put-tweet", body'[r]) )
            => sent'[r] = <<404>> /\ UNCHANGED <<usersCollection, tweetsCollection>>
       /\ ( /\ Completes(r, "put-tweet", "findOne") \/ Completes(r, "delete-tweet", "findOne")
            /\ ~Stored(id[r].oid) )
            => sent'[r] = <<404>> /\ UNCHANGED <<usersCollection, tweetsCollection>>
       /\ (Completes(r, "put-tweet", "updateOne") /\ ~Stored(id[r].oid))
            => sent'[r] \notin {<<204>>, <<304>>}
       /\ (Completes(r, "delete-tweet", "deleteOne") /\ ~Stored(id[r].oid))
            => sent'[r] # <<204>>
    ]_vars

\* The avatar GET /tweets owes an entry: that of the first user document with
\* the username, or null.
C5_Avatar(username) ==
  LET m == {j \in DOMAIN usersCollection : usersCollection[j].username = username}
  IN IF m = {} THEN JNull
     ELSE usersCollection[CHOOSE j \in m : \A k \in m : j <= k].avatar

\* C5: GET /tweets reads exactly the stored tweets and answers 200 with one
\* entry per tweet read, most recently inserted first, each with the tweet's
\* _id, username and text and its user's avatar (null without a user).
C5_GetTweetsListing ==
  /\ [](\A r \in Reqs :
          (kind[r] = "get-tweets" /\ pc[r] = "returned") =>
            /\ sent[r] = <<200>>
            /\ Len(json[r]) = Len(tweetsLocal[r])
            /\ \A i \in DOMAIN json[r] :
                 LET t == tweetsLocal[r][Len(tweetsLocal[r]) + 1 - i]
                 IN /\ json[r][i].oid = t.oid
                    /\ json[r][i].username = t.username
                    /\ json[r][i].tweet = t.tweet
                    /\ json[r][i].avatar = C5_Avatar(t.username))
  /\ [][\A r \in Reqs :
          Completes(r, "get-tweets", "find") => tweetsLocal'[r] = tweetsCollection
       ]_vars

C5_Witness ==
  \E r \in Reqs :
    /\ kind[r] = "get-tweets" /\ sent[r] = <<200>>
    /\ Len(json[r]) = 2
    /\ json[r][1].oid > json[r][2].oid
    /\ tweetsLocal[r] = tweetsCollection

\* C6: a PUT /tweets/:id that writes to a stored tweet of its own username
\* answers 304 and changes nothing when the text is the stored text, and
\* otherwise answers 204 with the tweet's text replaced; the tweet's _id and
\* username, every other tweet and the users are unchanged.
C6_PutUpdate ==
  [][\A r \in Reqs :
       (Completes(r, "put-tweet", "updateOne") /\ Stored(id[r].oid)) =>
         LET i == IndexOf(id[r].oid)
         IN /\ tweetsCollection[i].username = body[r].username
            /\ IF tweetsCollection[i].tweet = body[r].tweet
               THEN sent'[r] = <<304>> /\ tweetsCollection' = tweetsCollection
               ELSE sent'[r] = <<204>> /\ tweetsCollection'[i].tweet = body[r].tweet
            /\ Len(tweetsCollection') = Len(tweetsCollection)
            /\ tweetsCollection'[i].oid = tweetsCollection[i].oid
            /\ tweetsCollection'[i].username = tweetsCollection[i].username
            /\ \A j \in DOMAIN tweetsCollection :
                 j # i => tweetsCollection'[j] = tweetsCollection[j]
            /\ UNCHANGED usersCollection
    ]_vars

C6_Witness ==
  \E r, q \in Reqs :
    /\ kind[r] = "put-tweet" /\ sent[r] = <<204>>
    /\ kind[q] = "put-tweet" /\ sent[q] = <<304>>
    /\ Stored(id[r].oid) /\ id[q] = id[r]
    /\ tweetsCollection[IndexOf(id[r].oid)].tweet = body[r].tweet

C8_CatchStatus(k) == IF k \in {"put-tweet", "delete-tweet"} THEN 404 ELSE 500

\* C8: when a store operation throws, sign-up, post and listing answer 500 and
\* update and delete answer 404; the failed step writes nothing, and every
\* request is answered exactly once.
C8_StoreFailure ==
  /\ [](\A r \in Reqs :
          /\ pc[r] \in {"returned", "caught"} => Len(sent[r]) = 1
          /\ pc[r] \notin {"returned", "caught"} => sent[r] = <<>>)
  /\ [][\A r \in Reqs :
          (\E op \in {"findOne", "insertOne", "find", "Promise.all", "updateOne", "deleteOne"} :
             Throws(r, op))
          => /\ sent'[r] = <<C8_CatchStatus(kind[r])>>
             /\ UNCHANGED <<usersCollection, tweetsCollection, nextId>>
       ]_vars

C8_Witness ==
  \E r, q \in Reqs :
    /\ kind[r] = "get-tweets" /\ pc[r] = "caught" /\ sent[r] = <<500>>
    /\ tweetsLocal[r] # <<>>
    /\ kind[q] = "put-tweet" /\ pc[q] = "caught" /\ sent[q] = <<404>>
    /\ id[q].hex /\ Stored(id[q].oid)

\* C9: a sign-up, post or update whose body fails its schema is answered 422
\* as it arrives, before any store operation and whatever its id, and both
\* collections are unchanged.
C9_ValidationFirst ==
  [][\A r \in Reqs :
       ( /\ pc[r] = "idle" /\ pc'[r] # "idle"
         /\ kind'[r] \in {"sign-up", "post-tweet", "put-tweet"}
         /\ C9_BadBody(kind'[r], body'[r]) )
       => /\ sent'[r] = <<422>> /\ pc'[r] = "returned"
          /\ UNCHANGED <<usersCollection, tweetsCollection, nextId>>
    ]_vars

C9_Witness ==
  \E r, q \in Reqs :
    /\ kind[r] = "put-tweet" /\ sent[r] = <<422>> /\ ~id[r].hex
    /\ kind[q] = "put-tweet" /\ sent[q] = <<422>> /\ Stored(id[q].oid)
    /\ tweetsCollection[IndexOf(id[q].oid)].username # body[q].username

\* C10: every stored tweet's username is the username of a user document, and
\* no entry GET /tweets builds or sends has a null avatar.
C10_ReferentialIntegrity ==
  /\ \A i \in DOMAIN tweetsCollection : Registered(tweetsCollection[i].username)
  /\ \A r \in Reqs :
       /\ \A i \in DOMAIN json[r] : json[r][i].avatar.t = "string"
       /\ \A i \in DOMAIN tweetsWithAvatar[r] :
            tweetsWithAvatar[r][i].settled => tweetsWithAvatar[r][i].avatar.t = "string"

C10_Witness ==
  \E r \in Reqs :
    /\ kind[r] = "get-tweets" /\ sent[r] = <<200>> /\ json[r] # <<>>
    /\ Len(usersCollection) = 2
    /\ usersCollection[1].username # json[r][1].username
====
